---- MODULE Spec2Model ----
(***************************************************************************)
(* Verification model of ThiagoPoppe/parc: the Roman-numeral resolver of   *)
(* source/theory/rns.py and the windowing of label and feature tables in   *)
(* theorytab/create_label_segments.py and                                  *)
(* theorytab/VAMP/extract_vamp_features.py.                                *)
(*                                                                         *)
(* Python strings are modelled as sequences of one-character strings, so   *)
(* that the regular expression, replace, split and join of rns.py are      *)
(* computed character by character.  Python 0-based indices become 1-based *)
(* sequence indices.                                                       *)
(***************************************************************************)
EXTENDS Integers, Sequences, FiniteSets, TLC

VARIABLES
    call,   \* the call under way: [fn |-> name, ...arguments]
    pc,     \* "start" before the call runs, "done" after it returned or raised
    ret,    \* outcome of the call: [status |-> "ok" | exception name, value |-> ...]
    h5f     \* the datasets created in the output file so far, in creation order

vars == <<call, pc, ret, h5f>>

(***************************************************************************)
(* Outcomes of a Python call: a returned value or a raised exception.      *)
(***************************************************************************)
Return(v) == [status |-> "ok", value |-> v]
Raise(exc) == [status |-> exc, value |-> <<>>]
NoRet == [status |-> "none", value |-> <<>>]

(***************************************************************************)
(* source/constants.py                                                     *)
(***************************************************************************)
CHROMATIC_SCALE == <<"C", "C#", "D", "D#", "E", "F", "F#", "G", "G#", "A", "A#", "B">>

MODE_INTERVALS ==
    [ major            |-> <<2, 2, 1, 2, 2, 2>>,
      minor            |-> <<2, 1, 2, 2, 1, 2>>,
      dorian           |-> <<2, 1, 2, 2, 2, 1>>,
      phrygian         |-> <<1, 2, 2, 2, 1, 2>>,
      lydian           |-> <<2, 2, 2, 1, 2, 2>>,
      mixolydian       |-> <<2, 2, 1, 2, 2, 1>>,
      locrian          |-> <<1, 2, 2, 1, 2, 2>>,
      harmonicMinor    |-> <<2, 1, 2, 2, 1, 3>>,
      phrygianDominant |-> <<1, 3, 1, 2, 1, 2>> ]

QUALITY_INTERVALS ==
    [ D7  |-> <<4, 3, 3>>, M   |-> <<4, 3>>,    M7  |-> <<4, 3, 4>>, a   |-> <<4, 4>>,
      a7  |-> <<4, 4, 2>>, aM7 |-> <<4, 4, 3>>, d   |-> <<3, 3>>,    d7  |-> <<3, 3, 3>>,
      h7  |-> <<3, 3, 4>>, m   |-> <<3, 4>>,    m7  |-> <<3, 4, 3>>, mM7 |-> <<3, 4, 4>>,
      oM7 |-> <<3, 3, 5>> ]

ACCIDENTAL_MAP ==
    (<<"b", "b">> :> -2) @@ (<<"b">> :> -1) @@ (<<>> :> 0) @@
    (<<"#">> :> 1) @@ (<<"#", "#">> :> 2)

\* Values are the 0-based degree indices of the source.
DEGREE_MAP ==
    (<<"I">> :> 0) @@ (<<"I", "I">> :> 1) @@ (<<"I", "I", "I">> :> 2) @@
    (<<"I", "V">> :> 3) @@ (<<"V">> :> 4) @@ (<<"V", "I">> :> 5) @@
    (<<"V", "I", "I">> :> 6)

(***************************************************************************)
(* Python str helpers used by rns.py, over the characters of the model.    *)
(***************************************************************************)
UpperOf ==
    [ i |-> "I", v |-> "V", b |-> "B", o |-> "O", m |-> "M",
      a |-> "A", j |-> "J", s |-> "S", u |-> "U" ]

IsLowerChar(c) == c \in DOMAIN UpperOf
IsUpperChar(c) == c \in {UpperOf[k] : k \in DOMAIN UpperOf} \cup {"X"}

\* str.upper()
upper(s) == [i \in 1..Len(s) |-> IF IsLowerChar(s[i]) THEN UpperOf[s[i]] ELSE s[i]]

\* str.isupper(): at least one cased character and no lowercase one
isupper(s) ==
    /\ \E i \in 1..Len(s) : IsUpperChar(s[i])
    /\ \A i \in 1..Len(s) : ~IsLowerChar(s[i])

\* rn.replace('/o', '^o'): the two characters of the pattern differ, so
\* occurrences cannot overlap and every '/' followed by 'o' becomes '^'.
replace_slash_o(s) ==
    [i \in 1..Len(s) |->
        IF s[i] = "/" /\ i < Len(s) /\ s[i + 1] = "o" THEN "^" ELSE s[i]]

\* str.split(sep) for a one-character separator: always at least one part.
RECURSIVE split(_, _)
split(s, sep) ==
    IF \A i \in 1..Len(s) : s[i] # sep
    THEN <<s>>
    ELSE LET k == CHOOSE i \in 1..Len(s) :
                    /\ s[i] = sep
                    /\ \A j \in 1..(i - 1) : s[j] # sep
         IN <<SubSeq(s, 1, k - 1)>> \o split(SubSeq(s, k + 1, Len(s)), sep)

\* str(n) for an integer
DigitChar == <<"0", "1", "2", "3", "4", "5", "6", "7", "8", "9">>
RECURSIVE str(_)
str(n) == IF n < 0 THEN <<"-">> \o str(0 - n)
          ELSE IF n < 10 THEN <<DigitChar[n + 1]>>
          ELSE str(n \div 10) \o <<DigitChar[(n % 10) + 1]>>

\* '-'.join(strings)
RECURSIVE join(_)
join(ss) ==
    IF Len(ss) = 0 THEN <<>>
    ELSE IF Len(ss) = 1 THEN ss[1]
    ELSE ss[1] \o <<"-">> \o join(Tail(ss))

\* np.cumsum
RECURSIVE SumTo(_, _)
SumTo(xs, i) == IF i = 0 THEN 0 ELSE SumTo(xs, i - 1) + xs[i]
cumsum(xs) == [i \in 1..Len(xs) |-> SumTo(xs, i)]

(***************************************************************************)
(* source/theory/rns.py                                                    *)
(***************************************************************************)
\* Mutant of get_scale_pcs: the cumulative sums are not reduced modulo 12.
get_scale_pcs_unreduced(tonic_pc, mode) ==
    IF mode \notin DOMAIN MODE_INTERVALS THEN Raise("KeyError")
    ELSE Return(cumsum(<<tonic_pc>> \o MODE_INTERVALS[mode]))

\* get_scale_pcs: np.cumsum([tonic_pc] + MODE_INTERVALS[mode]) % 12
get_scale_pcs(tonic_pc, mode) ==
    IF mode \notin DOMAIN MODE_INTERVALS THEN Raise("KeyError")
    ELSE LET sums == cumsum(<<tonic_pc>> \o MODE_INTERVALS[mode])
         IN Return([i \in 1..Len(sums) |-> sums[i] % 12])

\* The pattern ^([#b]?)([IViv]{1,3})(.*)$ under re.match.  The character
\* classes are disjoint, so the greedy match is the only candidate: giving
\* back the accidental or a degree letter never turns a failure into a match.
\* '.' does not match a newline and '$' matches at the end of the string or
\* just before a final newline.
IsAccidentalChar(c) == c \in {"#", "b"}
IsDegreeChar(c) == c \in {"I", "V", "i", "v"}

\* Mutant of parse_rn: the degree group is {0,3}, so any token matches.
parse_rn_optional_degree(rn) ==
    LET n == Len(rn)
        na == IF n >= 1 /\ IsAccidentalChar(rn[1]) THEN 1 ELSE 0
        IsDeg(i) == i <= n /\ IsDegreeChar(rn[i])
        nd == IF ~IsDeg(na + 1) THEN 0
              ELSE IF ~IsDeg(na + 2) THEN 1
              ELSE IF ~IsDeg(na + 3) THEN 2
              ELSE 3
    IN Return(<<SubSeq(rn, 1, na), SubSeq(rn, na + 1, na + nd), SubSeq(rn, na + nd + 1, n)>>)

parse_rn(rn) ==
    LET n == Len(rn)
        na == IF n >= 1 /\ IsAccidentalChar(rn[1]) THEN 1 ELSE 0
        IsDeg(i) == i <= n /\ IsDegreeChar(rn[i])
        nd == IF ~IsDeg(na + 1) THEN 0
              ELSE IF ~IsDeg(na + 2) THEN 1
              ELSE IF ~IsDeg(na + 3) THEN 2
              ELSE 3
        rest == SubSeq(rn, na + nd + 1, n)
        tailOk == \A i \in 1..Len(rest) : rest[i] = "\n" => i = Len(rest)
        extension == IF Len(rest) > 0 /\ rest[Len(rest)] = "\n"
                     THEN SubSeq(rest, 1, Len(rest) - 1)
                     ELSE rest
    IN IF nd = 0 \/ ~tailOk
       THEN Raise("ValueError")
       ELSE Return(<<SubSeq(rn, 1, na), SubSeq(rn, na + 1, na + nd), extension>>)

major_map ==
    (<<"7">> :> "D7") @@ (<<"m", "a", "j", "7">> :> "M7") @@ (<<"+">> :> "a") @@
    (<<"+", "7">> :> "a7") @@ (<<"+", "m", "a", "j", "7">> :> "aM7") @@ (<<>> :> "M")

minor_map ==
    (<<"o">> :> "d") @@ (<<"o", "7">> :> "d7") @@ (<<"^", "o", "7">> :> "h7") @@
    (<<"7">> :> "m7") @@ (<<"m", "a", "j", "7">> :> "mM7") @@
    (<<"o", "m", "a", "j", "7">> :> "oM7") @@ (<<>> :> "m")

\* Mutant of get_chord_quality: the two tables are swapped.
get_chord_quality_swapped(degree, extension) ==
    IF ~isupper(degree)
    THEN IF extension \in DOMAIN major_map
         THEN Return(major_map[extension]) ELSE Raise("KeyError")
    ELSE IF extension \in DOMAIN minor_map
         THEN Return(minor_map[extension]) ELSE Raise("KeyError")

\* Mutant of get_chord_quality: a miss in the selected table falls back to
\* the other table, and then to the plain triad of the family.
get_chord_quality_fallback(degree, extension) ==
    LET own == IF isupper(degree) THEN major_map ELSE minor_map
        other == IF isupper(degree) THEN minor_map ELSE major_map
    IN IF extension \in DOMAIN own THEN Return(own[extension])
       ELSE IF extension \in DOMAIN other THEN Return(other[extension])
       ELSE Return(own[<<>>])

get_chord_quality(degree, extension) ==
    IF isupper(degree)
    THEN IF extension \in DOMAIN major_map
         THEN Return(major_map[extension]) ELSE Raise("KeyError")
    ELSE IF extension \in DOMAIN minor_map
         THEN Return(minor_map[extension]) ELSE Raise("KeyError")

\* source.utils.get_note_pc, modelled from the specification: the pitch class
\* of a note name is its 0-based position in CHROMATIC_SCALE.
get_note_pc(note) ==
    (CHOOSE i \in 1..Len(CHROMATIC_SCALE) : CHROMATIC_SCALE[i] = note) - 1

\* scale.split(): the key string is modelled as a sequence of lexemes, the
\* words and the blanks between them; split() keeps the words.
split_ws(s) == SelectSeq(s, LAMBDA w : w # " ")

\* line 46: key_scale[DEGREE_MAP[degree.upper()]] + ACCIDENTAL_MAP[accidental]
key_tonic_pc(key_scale, degree, accidental) ==
    key_scale[DEGREE_MAP[upper(degree)] + 1] + ACCIDENTAL_MAP[accidental]

\* Mutant of secondary_scale: the secondary target is ignored.
secondary_scale_ignored(key_scale, second) == Return(key_scale)

\* Mutant of secondary_scale: a lowercase target builds a minor scale.
secondary_scale_by_case(key_scale, second) ==
    IF second = <<>> THEN Return(key_scale)
    ELSE LET p == parse_rn(second) IN
         IF p.status # "ok" THEN p
         ELSE IF upper(p.value[2]) \notin DOMAIN DEGREE_MAP THEN Raise("KeyError")
         ELSE get_scale_pcs(key_tonic_pc(key_scale, p.value[2], p.value[1]),
                            IF isupper(p.value[2]) THEN "major" ELSE "minor")

\* lines 44-47: the scale the primary part is resolved in.  `second` is the
\* empty string when parts[1] is absent or empty (both are falsy).
secondary_scale(key_scale, second) ==
    IF second = <<>> THEN Return(key_scale)
    ELSE LET p == parse_rn(second) IN
         IF p.status # "ok" THEN p
         ELSE IF upper(p.value[2]) \notin DOMAIN DEGREE_MAP THEN Raise("KeyError")
         ELSE get_scale_pcs(key_tonic_pc(key_scale, p.value[2], p.value[1]), "major")

\* line 51
root_pc(key_scale, degree, accidental) ==
    key_scale[DEGREE_MAP[upper(degree)] + 1] + ACCIDENTAL_MAP[accidental]

\* Mutant of pitch_classes: only the intervals above the root are reduced.
pitch_classes_root_unreduced(root, intervals) ==
    LET sums == cumsum(<<0>> \o intervals)
    IN [i \in 1..Len(sums) |-> root + (sums[i] % 12)]

\* lines 54-55: np.cumsum([root_pc] + intervals) % 12, joined with '-'
pitch_classes(root, intervals) ==
    LET sums == cumsum(<<root>> \o intervals)
    IN [i \in 1..Len(sums) |-> sums[i] % 12]

format_pcs(pcs) == join([i \in 1..Len(pcs) |-> str(pcs[i])])

\* lines 38-42: the primary part and the secondary target of a token
rn_parts(rn) == split(replace_slash_o(rn), "/")
rn_first(rn) == rn_parts(rn)[1]
rn_second(rn) == IF Len(rn_parts(rn)) = 2 THEN rn_parts(rn)[2] ELSE <<>>

\* lines 49-55: the primary part resolved in key_scale
resolve_first(first, key_scale) ==
    LET p == parse_rn(first) IN
    IF p.status # "ok" THEN p
    ELSE IF upper(p.value[2]) \notin DOMAIN DEGREE_MAP THEN Raise("KeyError")
    ELSE LET q == get_chord_quality(p.value[2], p.value[3]) IN
         IF q.status # "ok" THEN q
         ELSE Return(format_pcs(pitch_classes(
                  root_pc(key_scale, p.value[2], p.value[1]),
                  QUALITY_INTERVALS[q.value])))

get_rn_pitch_classes(rn, scale) ==
    LET words == split_ws(scale) IN
    IF Len(words) # 2 THEN Raise("ValueError")
    ELSE LET key_scale == get_scale_pcs(get_note_pc(words[1]), words[2]) IN
         IF key_scale.status # "ok" THEN key_scale
         ELSE LET eff == secondary_scale(key_scale.value, rn_second(rn)) IN
              IF eff.status # "ok" THEN eff
              ELSE resolve_first(rn_first(rn), eff.value)

(***************************************************************************)
(* Inputs of the resolver calls.                                           *)
(***************************************************************************)
MaxDegreeLetters == 3

Modes == DOMAIN MODE_INTERVALS
TonicPcs == (0 - 2)..13
Scales == {<<CHROMATIC_SCALE[i], " ", m>> : i \in 1..Len(CHROMATIC_SCALE), m \in Modes}

\* str.lower(), used to build inputs only
LowerOf == [I |-> "i", V |-> "v"]
lower(s) == [i \in 1..Len(s) |-> IF s[i] \in DOMAIN LowerOf THEN LowerOf[s[i]] ELSE s[i]]

LetterStrings == UNION {[1..k -> {"I", "V", "i", "v"}] : k \in 1..MaxDegreeLetters}
Prefixes == {<<>>, <<"b">>, <<"#">>, <<"b", "b">>, <<"#", "#">>, <<"b", "#">>, <<"X">>}
Extensions ==
    DOMAIN major_map \cup DOMAIN minor_map \cup
    {<<"/", "o", "7">>, <<"s", "u", "s", "4">>, <<"\n">>, <<"7", "\n">>, <<"\n", "7">>}

ParseTokens ==
    {a \o d \o e : a \in Prefixes, d \in LetterStrings \cup {<<>>}, e \in Extensions}

QualityDegrees == LetterStrings \cup {<<>>}

ProperDegrees == DOMAIN DEGREE_MAP \cup {lower(d) : d \in DOMAIN DEGREE_MAP}
ResolveDegrees == ProperDegrees \cup {<<"V", "V">>, <<"I", "v">>, <<"i", "V">>}
ResolveExtensions ==
    DOMAIN major_map \cup DOMAIN minor_map \cup {<<"/", "o", "7">>, <<"s", "u", "s", "4">>}
SingleAccidentals == {<<>>, <<"b">>, <<"#">>}

PlainTokens ==
    {a \o d \o e : a \in SingleAccidentals, d \in ResolveDegrees, e \in ResolveExtensions}
        \cup {<<"b", "b", "V", "I", "I">>, <<"#", "#", "I", "V">>, <<"X", "7">>, <<>>}

SecondaryPrimaries ==
    { <<"V">>, <<"V", "7">>, <<"v", "i", "i", "/", "o", "7">>, <<"v", "i", "i", "o">>,
      <<"b", "I", "I">>, <<"#", "i", "v">>, <<"I", "V">>, <<"i", "i", "7">> }
SecondaryTargets ==
    {a \o d \o e : a \in SingleAccidentals, d \in ProperDegrees, e \in {<<>>, <<"7">>}}
        \cup {<<>>, <<"X">>, <<"V", "V">>, <<"b", "b", "V", "I", "I">>,
              <<"V", "/", "V">>, <<"v", "i", "i", "/", "o", "7">>}
SecondaryTokens == {p \o <<"/">> \o t : p \in SecondaryPrimaries, t \in SecondaryTargets}

ResolveTokens == PlainTokens \cup SecondaryTokens

ScaleCalls ==
    [fn : {"get_scale_pcs"}, tonic_pc : TonicPcs, mode : Modes \cup {"blues"}]
ParseCalls == [fn : {"parse_rn"}, rn : ParseTokens]
QualityCalls ==
    [fn : {"get_chord_quality"}, degree : QualityDegrees, extension : Extensions]
ResolveCalls == [fn : {"get_rn_pitch_classes"}, rn : ResolveTokens, scale : Scales]

(***************************************************************************)
(* The resolver as a state machine: one call of one function per run.      *)
(***************************************************************************)
Init ==
    /\ call \in ScaleCalls \cup ParseCalls \cup QualityCalls \cup ResolveCalls
    /\ pc = "start"
    /\ ret = NoRet
    /\ h5f = <<>>

CallGetScalePcs ==
    /\ pc = "start"
    /\ call.fn = "get_scale_pcs"
    /\ ret' = get_scale_pcs(call.tonic_pc, call.mode)
    /\ pc' = "done"
    /\ UNCHANGED <<call, h5f>>

CallParseRn ==
    /\ pc = "start"
    /\ call.fn = "parse_rn"
    /\ ret' = parse_rn(call.rn)
    /\ pc' = "done"
    /\ UNCHANGED <<call, h5f>>

CallGetChordQuality ==
    /\ pc = "start"
    /\ call.fn = "get_chord_quality"
    /\ ret' = get_chord_quality(call.degree, call.extension)
    /\ pc' = "done"
    /\ UNCHANGED <<call, h5f>>

CallGetRnPitchClasses ==
    /\ pc = "start"
    /\ call.fn = "get_rn_pitch_classes"
    /\ ret' = get_rn_pitch_classes(call.rn, call.scale)
    /\ pc' = "done"
    /\ UNCHANGED <<call, h5f>>

Next ==
    \/ CallGetScalePcs
    \/ CallParseRn
    \/ CallGetChordQuality
    \/ CallGetRnPitchClasses

Spec == Init /\ [][Next]_vars

TypeOK ==
    /\ pc \in {"start", "done"}
    /\ h5f = <<>>
    /\ pc = "start" => ret = NoRet
    /\ pc = "done" => ret.status \in {"ok", "ValueError", "KeyError"}

(***************************************************************************)
(* Windowing of label and feature tables.                                  *)
(* theorytab/create_label_segments.py, theorytab/VAMP/                     *)
(* extract_vamp_features.py.  A table is the sequence of its columns; a    *)
(* column of beat j is represented by j, a padding column by the padding   *)
(* value, so that a window shows which columns it holds.                   *)
(***************************************************************************)
STEP_SIZE == 32
WINDOW_SIZE == 256
LABEL_PADDING_VALUE == -1

MaxBeats == 330

\* skimage view_as_windows(table, (rows, window), (rows, step)).squeeze(0):
\* raises when the window is wider than the table, else yields
\* (T - window) // step + 1 windows, window k starting at column k * step.
view_as_windows(table, window, step) ==
    IF Len(table) < window THEN Raise("ValueError")
    ELSE Return([k \in 1..(((Len(table) - window) \div step) + 1) |->
                    SubSeq(table, (k - 1) * step + 1, (k - 1) * step + window)])

\* source.utils.encode_labels, modelled from the specification: the label
\* table of an entity has one column per beat.
encode_labels(num_beats) == [j \in 1..num_beats |-> j]

\* The beat-synchronous feature table of an entity: resample_feature leaves
\* one column per beat (extract_vamp_features.py line 68).
feature_table(num_beats) == [j \in 1..num_beats |-> j]

\* create_label_segments.py line 55: the label table is windowed as it is.
labels_segments(labels) == view_as_windows(labels, WINDOW_SIZE, STEP_SIZE)

\* np.pad(feature, ((0, 0), (0, width))): zeros appended on the time axis
pad_right(feature, width) == feature \o [j \in 1..width |-> 0]

\* extract_vamp_features.py lines 103-110
chunkify_feature(feature) ==
    view_as_windows(
        IF Len(feature) < WINDOW_SIZE
        THEN pad_right(feature, WINDOW_SIZE - Len(feature))
        ELSE feature,
        WINDOW_SIZE, STEP_SIZE)

Modalities == <<"chroma", "basschroma", "spectrum">>

WindowCalls ==
    [fn : {"label_segments", "feature_segments"}, num_beats : 1..MaxBeats]

InitWindow ==
    /\ call \in WindowCalls
    /\ pc = "start"
    /\ ret = NoRet
    /\ h5f = <<>>

\* create_label_segments.py lines 54-55; the ValueError of view_as_windows is
\* not caught and ends the run.
LabelSegments ==
    /\ pc = "start"
    /\ call.fn = "label_segments"
    /\ ret' = labels_segments(encode_labels(call.num_beats))
    /\ pc' = IF ret'.status = "ok" THEN "write" ELSE "done"
    /\ UNCHANGED <<call, h5f>>

\* create_label_segments.py lines 57-58: one iteration of the enumerate loop
LabelCreateDataset ==
    /\ pc = "write"
    /\ call.fn = "label_segments"
    /\ LET segment_idx == Len(h5f) IN
        /\ h5f' = Append(h5f, [name |-> <<segment_idx>>,
                               data |-> ret.value[segment_idx + 1]])
        /\ pc' = IF segment_idx + 1 = Len(ret.value) THEN "done" ELSE "write"
    /\ UNCHANGED <<call, ret>>

\* extract_vamp_features.py lines 154-159: the three tables of the entity are
\* chunked; the asserts compare the numbers of chunks.
FeatureChunks ==
    /\ pc = "start"
    /\ call.fn = "feature_segments"
    /\ LET chroma_chunks == chunkify_feature(feature_table(call.num_beats))
           basschroma_chunks == chunkify_feature(feature_table(call.num_beats))
           spectrum_chunks == chunkify_feature(feature_table(call.num_beats))
       IN ret' =
            IF chroma_chunks.status # "ok" THEN chroma_chunks
            ELSE IF basschroma_chunks.status # "ok" THEN basschroma_chunks
            ELSE IF spectrum_chunks.status # "ok" THEN spectrum_chunks
            ELSE IF \/ Len(chroma_chunks.value) # Len(basschroma_chunks.value)
                    \/ Len(chroma_chunks.value) # Len(spectrum_chunks.value)
                 THEN Raise("AssertionError")
            ELSE Return(<<chroma_chunks.value, basschroma_chunks.value,
                          spectrum_chunks.value>>)
    /\ pc' = IF ret'.status = "ok" THEN "write" ELSE "done"
    /\ UNCHANGED <<call, h5f>>

\* extract_vamp_features.py lines 161-164: one iteration of the idx loop
\* creates the three datasets of the segment.
FeatureCreateDatasets ==
    /\ pc = "write"
    /\ call.fn = "feature_segments"
    /\ LET idx == Len(h5f) \div 3 IN
        /\ h5f' = h5f \o [m \in 1..3 |->
                            [name |-> <<idx, Modalities[m]>>,
                             data |-> ret.value[m][idx + 1]]]
        /\ pc' = IF idx + 1 = Len(ret.value[1]) THEN "done" ELSE "write"
    /\ UNCHANGED <<call, ret>>

NextWindow ==
    \/ LabelSegments
    \/ LabelCreateDataset
    \/ FeatureChunks
    \/ FeatureCreateDatasets

SpecWindow == InitWindow /\ [][NextWindow]_vars

(***************************************************************************)
(* Vocabulary of the properties of the resolver.                           *)
(***************************************************************************)
Done(fn) == pc = "done" /\ call.fn = fn

\* Sum of the first i entries of a list of interval steps
StepsBefore(steps, i) == SumTo(steps, i)

\* The positions of the secondary-target separators of a token: every '/'
\* that does not open the half-diminished marker '/o'.
Separators(rn) ==
    {i \in 1..Len(rn) : rn[i] = "/" /\ ~(i < Len(rn) /\ rn[i + 1] = "o")}
FirstSeparator(rn) == CHOOSE i \in Separators(rn) : \A j \in Separators(rn) : i <= j

\* primary/target: exactly one separator, followed by a non-empty target
HasTarget(rn) ==
    /\ Cardinality(Separators(rn)) = 1
    /\ FirstSeparator(rn) < Len(rn)
TargetOf(rn) == SubSeq(rn, FirstSeparator(rn) + 1, Len(rn))
PrimaryOf(rn) ==
    replace_slash_o(IF Separators(rn) = {} THEN rn
                    ELSE SubSeq(rn, 1, FirstSeparator(rn) - 1))

Accepted(part) == parse_rn(part).status = "ok"
AccidentalOf(part) == parse_rn(part).value[1]
DegreeOf(part) == parse_rn(part).value[2]
ExtensionOf(part) == parse_rn(part).value[3]
HasQuality(part) == get_chord_quality(DegreeOf(part), ExtensionOf(part)).status = "ok"
StepsOf(part) ==
    QUALITY_INTERVALS[get_chord_quality(DegreeOf(part), ExtensionOf(part)).value]
NamesDegree(part) == upper(DegreeOf(part)) \in DOMAIN DEGREE_MAP
DegreeIndex(part) == DEGREE_MAP[upper(DegreeOf(part))]
OffsetOf(part) == ACCIDENTAL_MAP[AccidentalOf(part)]

\* Pitch class of degree index d (0..6) in the scale of the key of the call
KeyTonic == get_note_pc(call.scale[1])
KeyMode == call.scale[3]
KeyDegreePc(d) == (KeyTonic + StepsBefore(MODE_INTERVALS[KeyMode], d)) % 12

\* The major scale on a pitch class, by its well-known offsets
MajorOffsets == <<0, 2, 4, 5, 7, 9, 11>>
MajorDegreePc(tonic, d) == (tonic + MajorOffsets[d + 1]) % 12

\* Pitch class of the secondary target in the key, before reduction
TargetPc(rn) == KeyDegreePc(DegreeIndex(TargetOf(rn))) + OffsetOf(TargetOf(rn))

\* Root of the primary part before reduction, in the effective scale
RawRoot(rn) ==
    (IF HasTarget(rn)
     THEN MajorDegreePc(TargetPc(rn), DegreeIndex(PrimaryOf(rn)))
     ELSE KeyDegreePc(DegreeIndex(PrimaryOf(rn)))) + OffsetOf(PrimaryOf(rn))

\* The chord the claims expect: root and stacked quality steps, modulo 12
ExpectedChord(rn) ==
    LET steps == StepsOf(PrimaryOf(rn))
    IN [k \in 1..(Len(steps) + 1) |-> (RawRoot(rn) + StepsBefore(steps, k - 1)) % 12]

\* Reading the returned string back: int() of each '-' separated field
RECURSIVE int(_)
int(s) ==
    IF Len(s) = 0 THEN 0
    ELSE 10 * int(SubSeq(s, 1, Len(s) - 1))
         + (CHOOSE d \in 0..9 : DigitChar[d + 1] = s[Len(s)])
IsNumeral(s) == Len(s) > 0 /\ \A i \in 1..Len(s) : s[i] \in {DigitChar[d] : d \in 1..10}
Fields(s) == split(s, "-")
Decodes(s, pcs) ==
    /\ Len(Fields(s)) = Len(pcs)
    /\ \A k \in 1..Len(pcs) : IsNumeral(Fields(s)[k]) /\ int(Fields(s)[k]) = pcs[k]

(***************************************************************************)
(* Properties of the resolver (specification Spec).                        *)
(***************************************************************************)

\* C1: for every tonic pitch class in 0..11 and every mode of the table,
\* get_scale_pcs returns exactly 7 values; element i (0..6) is (tonic + sum of
\* the first i interval steps of the mode) mod 12, element 0 is the tonic and
\* every element lies in 0..11.
C1_ScaleIsCumulativeMod12 ==
    (Done("get_scale_pcs") /\ call.tonic_pc \in 0..11 /\ call.mode \in Modes) =>
        /\ ret.status = "ok"
        /\ Len(ret.value) = 7
        /\ ret.value[1] = call.tonic_pc
        /\ \A i \in 0..6 :
              /\ ret.value[i + 1] =
                    (call.tonic_pc + StepsBefore(MODE_INTERVALS[call.mode], i)) % 12
              /\ ret.value[i + 1] \in 0..11

\* C1 witness: a scale that wraps around the octave was built.
C1_Witness ==
    /\ Done("get_scale_pcs")
    /\ call.tonic_pc = 11
    /\ call.mode = "harmonicMinor"
    /\ ret.status = "ok"
    /\ ret.value[7] < ret.value[1]

\* C2: for a token primary/target and any key, the target's pitch class is
\* (pitch class of the target's degree in the key + the target's accidental
\* offset), a major scale is built on it whatever the case or extension of the
\* target, and the root of the primary part is taken from that major scale.
C2_SecondaryTargetMajorScale ==
    ( /\ Done("get_rn_pitch_classes")
      /\ HasTarget(call.rn)
      /\ Accepted(TargetOf(call.rn)) /\ NamesDegree(TargetOf(call.rn))
      /\ Accepted(PrimaryOf(call.rn)) /\ NamesDegree(PrimaryOf(call.rn))
      /\ HasQuality(PrimaryOf(call.rn)) ) =>
        /\ ret.status = "ok"
        /\ Decodes(ret.value, ExpectedChord(call.rn))
        /\ int(Fields(ret.value)[1]) =
              ( MajorDegreePc(TargetPc(call.rn), DegreeIndex(PrimaryOf(call.rn)))
                + OffsetOf(PrimaryOf(call.rn)) ) % 12

\* C2 witness: a primary part was resolved in the major scale of a lowercase
\* target with an extension, and the result differs from the one in the key.
C2_Witness ==
    /\ Done("get_rn_pitch_classes")
    /\ call.rn = <<"V", "7", "/", "v", "i", "7">>
    /\ call.scale = <<"C", " ", "major">>
    /\ ret = Return(<<"4", "-", "8", "-", "1", "1", "-", "2">>)

\* C3 as stated: for every token accepted by the grammar whose (degree,
\* extension) pair has a quality, and every key, the result is the sequence
\* whose first element is (pitch class of the degree in the effective scale +
\* accidental offset) mod 12 and whose element k adds the first k quality
\* steps, mod 12; it has steps + 1 elements, all in 0..11.
C3_Original ==
    ( /\ Done("get_rn_pitch_classes")
      /\ Accepted(PrimaryOf(call.rn))
      /\ HasTarget(call.rn) => Accepted(TargetOf(call.rn))
      /\ HasQuality(PrimaryOf(call.rn)) ) =>
        /\ ret.status = "ok"
        /\ Decodes(ret.value, ExpectedChord(call.rn))

\* C3 amended: the same, for tokens whose degree letters (of the primary part
\* and of the secondary target, if any) spell one of the seven degrees I..VII.
C3_ChordIsCumulativeMod12 ==
    ( /\ Done("get_rn_pitch_classes")
      /\ Accepted(PrimaryOf(call.rn)) /\ NamesDegree(PrimaryOf(call.rn))
      /\ HasTarget(call.rn) =>
            Accepted(TargetOf(call.rn)) /\ NamesDegree(TargetOf(call.rn))
      /\ HasQuality(PrimaryOf(call.rn)) ) =>
        /\ ret.status = "ok"
        /\ Decodes(ret.value, ExpectedChord(call.rn))
        /\ Len(Fields(ret.value)) = Len(StepsOf(PrimaryOf(call.rn))) + 1
        /\ Len(Fields(ret.value)) \in {3, 4}
        /\ \A k \in 1..Len(Fields(ret.value)) : int(Fields(ret.value)[k]) \in 0..11
        /\ int(Fields(ret.value)[1]) = RawRoot(call.rn) % 12

\* C3 witness: a chord whose root is negative before reduction was resolved.
C3_Witness ==
    /\ Done("get_rn_pitch_classes")
    /\ call.rn = <<"b", "I", "7">>
    /\ call.scale = <<"C", " ", "major">>
    /\ RawRoot(call.rn) < 0
    /\ ret = Return(<<"1", "1", "-", "3", "-", "6", "-", "9">>)

\* C4: 'V/V' in C major resolves to 2-6-9, the D major triad.
C4_DominantOfDominant ==
    ( /\ Done("get_rn_pitch_classes")
      /\ call.rn = <<"V", "/", "V">>
      /\ call.scale = <<"C", " ", "major">> ) =>
        /\ ret = Return(<<"2", "-", "6", "-", "9">>)
        /\ Decodes(ret.value, <<2, 6, 9>>)

C4_Witness ==
    /\ Done("get_rn_pitch_classes")
    /\ call.rn = <<"V", "/", "V">>
    /\ call.scale = <<"C", " ", "major">>
    /\ ret.status = "ok"

\* C5: 'I' in C major resolves to 0-4-7.
C5_TonicTriad ==
    ( /\ Done("get_rn_pitch_classes")
      /\ call.rn = <<"I">>
      /\ call.scale = <<"C", " ", "major">> ) =>
        /\ ret = Return(<<"0", "-", "4", "-", "7">>)
        /\ Decodes(ret.value, <<0, 4, 7>>)

C5_Witness ==
    /\ Done("get_rn_pitch_classes")
    /\ call.rn = <<"I">>
    /\ call.scale = <<"C", " ", "major">>
    /\ ret.status = "ok"

\* The degree letters of a token as the grammar reads them: the run of at most
\* three letters of I, V, i, v that follows the optional accidental character.
LettersFrom(rn, i) ==
    IF ~(i <= Len(rn) /\ IsDegreeChar(rn[i])) THEN <<>>
    ELSE IF ~(i + 1 <= Len(rn) /\ IsDegreeChar(rn[i + 1])) THEN SubSeq(rn, i, i)
    ELSE IF ~(i + 2 <= Len(rn) /\ IsDegreeChar(rn[i + 2])) THEN SubSeq(rn, i, i + 1)
    ELSE SubSeq(rn, i, i + 2)
DegreeLetters(rn) ==
    LettersFrom(rn, IF Len(rn) >= 1 /\ rn[1] \in {"#", "b"} THEN 2 ELSE 1)
MixedCase(letters) ==
    /\ \E i \in 1..Len(letters) : letters[i] \in {"I", "V"}
    /\ \E i \in 1..Len(letters) : letters[i] \in {"i", "v"}

\* C6: parse_rn rejects every token whose degree letters are of mixed case
\* ('Iv', 'iV', 'vI') with an error instead of returning a triple.
C6_MixedCaseRejected ==
    (Done("parse_rn") /\ MixedCase(DegreeLetters(call.rn))) =>
        ret.status = "ValueError"

\* C7: for each of the five accidental symbols of ACCIDENTAL_MAP followed by
\* a valid degree, parse_rn succeeds and returns that symbol as the
\* accidental.
C7_AllAccidentalsAccepted ==
    \A acc \in DOMAIN ACCIDENTAL_MAP : \A d \in ProperDegrees :
        (Done("parse_rn") /\ call.rn = acc \o d) =>
            /\ ret.status = "ok"
            /\ ret.value[1] = acc
            /\ ACCIDENTAL_MAP[ret.value[1]] \in (0 - 2)..2

\* C8: parse_rn('X7') fails; more generally a token that does not start with
\* an optional accidental followed by at least one degree letter is rejected
\* with an error and no triple is returned.
C8_NoDegreeRejected ==
    /\ (Done("parse_rn") /\ call.rn = <<"X", "7">>) => ret = Raise("ValueError")
    /\ (Done("parse_rn") /\ DegreeLetters(call.rn) = <<>>) => ret = Raise("ValueError")

C8_Witness ==
    /\ Done("parse_rn")
    /\ call.rn = <<"X", "7">>
    /\ ret.status = "ValueError"

\* C9: get_chord_quality looks the extension up in the major-family table for
\* uppercase degree letters and in the minor-family table for lowercase ones,
\* and fails when the extension is absent from the selected table; it never
\* falls back to the other table or to a default quality.
AllUpperLetters(d) == Len(d) > 0 /\ \A i \in 1..Len(d) : d[i] \in {"I", "V"}
AllLowerLetters(d) == Len(d) > 0 /\ \A i \in 1..Len(d) : d[i] \in {"i", "v"}
LookedUpIn(table) ==
    IF call.extension \in DOMAIN table
    THEN ret = Return(table[call.extension])
    ELSE ret = Raise("KeyError")
C9_QualityTableByCase ==
    Done("get_chord_quality") =>
        /\ AllUpperLetters(call.degree) => LookedUpIn(major_map)
        /\ AllLowerLetters(call.degree) => LookedUpIn(minor_map)

\* C9 witness: an uppercase degree with an extension that only the minor
\* table knows was refused.
C9_Witness ==
    /\ Done("get_chord_quality")
    /\ call.degree = <<"V", "I", "I">>
    /\ call.extension = <<"o", "7">>
    /\ call.extension \in DOMAIN minor_map
    /\ ret.status = "KeyError"

\* C19: a token with two or more secondary-target separators ('V/V/V') makes
\* get_rn_pitch_classes fail with an error; no chord is returned for it.
C19_NestedTargetRejected ==
    (Done("get_rn_pitch_classes") /\ Cardinality(Separators(call.rn)) >= 2)
        => ret.status # "ok"


(***************************************************************************)
(* Properties of the windowing (specification SpecWindow).                 *)
(***************************************************************************)
Max(a, b) == IF a >= b THEN a ELSE b

\* The table of the call, right-padded to the window width
PaddedTable ==
    LET fill == IF call.fn = "label_segments" THEN LABEL_PADDING_VALUE ELSE 0
    IN [j \in 1..Max(call.num_beats, WINDOW_SIZE) |->
            IF j <= call.num_beats THEN j ELSE fill]
WindowCount == ((Max(call.num_beats, WINDOW_SIZE) - WINDOW_SIZE) \div STEP_SIZE) + 1
ColumnsFrom(start) == SubSeq(PaddedTable, start + 1, start + WINDOW_SIZE)

\* The windows written so far, per table written: the label table, or one of
\* the three feature tables
WrittenOf(m) ==
    IF call.fn = "label_segments" THEN h5f
    ELSE SelectSeq(h5f, LAMBDA ds : ds.name[2] = Modalities[m])
TablesWritten == IF call.fn = "label_segments" THEN {1} ELSE {1, 2, 3}

\* C10: for every table of length T >= 1 the windowing emits exactly
\* floor((max(T, 256) - 256) / 32) + 1 windows, and window k, in emission
\* order, is the slice of columns [32k, 32k + 256) of the padded table; T = 40
\* gives 1 window and T = 300 gives 2.
C10_WindowCountAndSlices ==
    /\ pc = "done" =>
          /\ ret.status = "ok"
          /\ \A m \in TablesWritten : Len(WrittenOf(m)) = WindowCount
          /\ call.num_beats = 40 => \A m \in TablesWritten : Len(WrittenOf(m)) = 1
          /\ call.num_beats = 300 => \A m \in TablesWritten : Len(WrittenOf(m)) = 2
    /\ \A m \in TablesWritten : \A k \in 1..Len(WrittenOf(m)) :
          /\ WrittenOf(m)[k].name[1] = k - 1
          /\ WrittenOf(m)[k].data = ColumnsFrom(STEP_SIZE * (k - 1))

\* The windowing of the feature tables alone does what C10 says.
FeatureWindowCountAndSlices ==
    call.fn = "feature_segments" => C10_WindowCountAndSlices

\* C11: a table with fewer than 256 beats is right-padded to 256 columns with
\* its padding value (-1 for labels, 0 for features) before it is sliced, so
\* the label branch as well as the feature branch writes at least one window,
\* the first one being the padded table.
C11_ShortTablePadded ==
    (pc = "done" /\ call.num_beats < WINDOW_SIZE) =>
        /\ ret.status = "ok"
        /\ \A m \in TablesWritten :
              /\ Len(WrittenOf(m)) >= 1
              /\ WrittenOf(m)[1].data = PaddedTable

\* The feature branch alone pads as C11 says.
FeatureShortTablePadded ==
    call.fn = "feature_segments" => C11_ShortTablePadded

(***************************************************************************)
(* The two scripts run on one entity (specification SpecEntity).           *)
(* create_label_segments.py writes the label segments of the entity to     *)
(* labels.h5 and extract_vamp_features.py writes its feature segments to   *)
(* the features file; they are separate processes, so their steps          *)
(* interleave freely.  Both tables have num_beats columns.  pc, ret and    *)
(* h5f hold one field per script.                                          *)
(***************************************************************************)
EntityCalls == [fn : {"segments_of_entity"}, num_beats : 1..MaxBeats]

InitEntity ==
    /\ call \in EntityCalls
    /\ pc = [label |-> "start", feature |-> "start"]
    /\ ret = [label |-> NoRet, feature |-> NoRet]
    /\ h5f = [labels |-> <<>>, features |-> <<>>]

\* extract_vamp_features.py lines 154-159: the chunks of the three tables and
\* the two asserts on their numbers
entity_chunks(num_beats) ==
    LET chroma_chunks == chunkify_feature(feature_table(num_beats))
        basschroma_chunks == chunkify_feature(feature_table(num_beats))
        spectrum_chunks == chunkify_feature(feature_table(num_beats))
    IN IF chroma_chunks.status # "ok" THEN chroma_chunks
       ELSE IF basschroma_chunks.status # "ok" THEN basschroma_chunks
       ELSE IF spectrum_chunks.status # "ok" THEN spectrum_chunks
       ELSE IF \/ Len(chroma_chunks.value) # Len(basschroma_chunks.value)
               \/ Len(chroma_chunks.value) # Len(spectrum_chunks.value)
            THEN Raise("AssertionError")
       ELSE Return(<<chroma_chunks.value, basschroma_chunks.value,
                     spectrum_chunks.value>>)

\* create_label_segments.py lines 54-55
EntityLabelSegments ==
    /\ pc.label = "start"
    /\ ret' = [ret EXCEPT !.label = labels_segments(encode_labels(call.num_beats))]
    /\ pc' = [pc EXCEPT !.label = IF ret'.label.status = "ok" THEN "write" ELSE "done"]
    /\ UNCHANGED <<call, h5f>>

\* create_label_segments.py lines 57-58: one iteration of the enumerate loop
EntityLabelCreateDataset ==
    /\ pc.label = "write"
    /\ LET segment_idx == Len(h5f.labels) IN
        /\ h5f' = [h5f EXCEPT !.labels =
                      Append(@, [name |-> <<segment_idx>>,
                                 data |-> ret.label.value[segment_idx + 1]])]
        /\ pc' = [pc EXCEPT !.label =
                      IF segment_idx + 1 = Len(ret.label.value) THEN "done" ELSE "write"]
    /\ UNCHANGED <<call, ret>>

\* extract_vamp_features.py lines 154-159
EntityFeatureChunks ==
    /\ pc.feature = "start"
    /\ ret' = [ret EXCEPT !.feature = entity_chunks(call.num_beats)]
    /\ pc' = [pc EXCEPT !.feature = IF ret'.feature.status = "ok" THEN "write" ELSE "done"]
    /\ UNCHANGED <<call, h5f>>

\* extract_vamp_features.py lines 161-164: one iteration of the idx loop
EntityFeatureCreateDatasets ==
    /\ pc.feature = "write"
    /\ LET idx == Len(h5f.features) \div 3 IN
        /\ h5f' = [h5f EXCEPT !.features =
                      @ \o [m \in 1..3 |->
                              [name |-> <<idx, Modalities[m]>>,
                               data |-> ret.feature.value[m][idx + 1]]]]
        /\ pc' = [pc EXCEPT !.feature =
                      IF idx + 1 = Len(ret.feature.value[1]) THEN "done" ELSE "write"]
    /\ UNCHANGED <<call, ret>>

NextEntity ==
    \/ EntityLabelSegments
    \/ EntityLabelCreateDataset
    \/ EntityFeatureChunks
    \/ EntityFeatureCreateDatasets

SpecEntity == InitEntity /\ [][NextEntity]_vars

\* Both scripts have finished with the entity
EntityDone == pc.label = "done" /\ pc.feature = "done"

\* The segment indexes of the entity stored in each file
LabelIndexes == {h5f.labels[k].name[1] : k \in 1..Len(h5f.labels)}
FeatureIndexes == {h5f.features[k].name[1] : k \in 1..Len(h5f.features)}

\* The number of segments a branch produced: the windows it returned, none if
\* the windowing raised
SegmentCount(r) == IF r.status = "ok" THEN Len(r.value) ELSE 0

\* C12: for every num_beats >= 1, below 256 included, the label branch and
\* the feature branch of an entity produce the same number of segments from
\* tables of num_beats columns, and none of the two fails.
C12_SegmentCountsEqual ==
    EntityDone =>
        /\ ret.label.status = "ok"
        /\ ret.feature.status = "ok"
        /\ SegmentCount(ret.label) = Len(ret.feature.value[1])
        /\ Cardinality(LabelIndexes) = Cardinality(FeatureIndexes)

\* From 256 beats on, the two branches do produce equally many segments.
LongTableSegmentCountsEqual ==
    call.num_beats >= WINDOW_SIZE => C12_SegmentCountsEqual

\* C13: when the branches disagree on the segment count of an entity, none
\* of its segments is persisted: once both scripts are through with the
\* entity, the stored label segments and the stored feature segments have the
\* same index set.
C13_NoMisalignedSegmentsStored ==
    EntityDone => LabelIndexes = FeatureIndexes

(***************************************************************************)
(* float64 arithmetic of the beat-to-frame alignment.                      *)
(* get_beats_to_frames computes its boundaries in IEEE-754 binary64; the   *)
(* roundings decide the integer boundary whenever i * num_frames is a      *)
(* multiple of num_beats, so the arithmetic is modelled bit for bit.  A    *)
(* natural number is a little-endian sequence of 15-bit limbs; a float is  *)
(* zero, inf, nan or m * 2^e with a mantissa m of exactly 53 bits.  Only   *)
(* non-negative values occur.                                              *)
(***************************************************************************)
SAMPLING_RATE == 44100
MantissaBits == 53
LimbBits == 15
LimbBase == 2^LimbBits

RECURSIVE NatOf(_)
NatOf(n) == IF n = 0 THEN <<>> ELSE <<n % LimbBase>> \o NatOf(n \div LimbBase)

RECURSIVE NatToInt(_)
NatToInt(a) == IF a = <<>> THEN 0 ELSE Head(a) + LimbBase * NatToInt(Tail(a))

\* Without the zero limbs at the top
RECURSIVE Trim(_)
Trim(a) ==
    IF a = <<>> \/ a[Len(a)] # 0 THEN a ELSE Trim(SubSeq(a, 1, Len(a) - 1))

\* a * k + carry, for k below 2^16
RECURSIVE NatMul(_, _, _)
NatMul(a, k, carry) ==
    IF a = <<>> THEN NatOf(carry)
    ELSE LET p == Head(a) * k + carry
         IN <<p % LimbBase>> \o NatMul(Tail(a), k, p \div LimbBase)

\* Quotient and remainder of a by n, for 0 < n <= 2^16: long division from
\* the top limb down
RECURSIVE NatDivMod(_, _)
NatDivMod(a, n) ==
    IF a = <<>> THEN [q |-> <<>>, r |-> 0]
    ELSE LET top == NatDivMod(Tail(a), n)
             cur == top.r * LimbBase + Head(a)
         IN [q |-> <<cur \div n>> \o top.q, r |-> cur % n]

RECURSIVE NatSucc(_)
NatSucc(a) ==
    IF a = <<>> THEN <<1>>
    ELSE IF Head(a) + 1 < LimbBase THEN <<Head(a) + 1>> \o Tail(a)
    ELSE <<0>> \o NatSucc(Tail(a))

\* Number of bits of a limb, and of a trimmed natural number
LimbLength(x) == IF x = 0 THEN 0 ELSE CHOOSE b \in 1..LimbBits : x \div 2^(b - 1) = 1
NatBits(a) ==
    IF a = <<>> THEN 0 ELSE (Len(a) - 1) * LimbBits + LimbLength(a[Len(a)])

\* a shifted right by s bits, 0 <= s <= 2 * LimbBits, with the bits shifted out
ShiftRight(a, s) ==
    IF s >= LimbBits
    THEN LET d == NatDivMod(Tail(a), 2^(s - LimbBits))
         IN [q |-> Trim(d.q), r |-> d.r * LimbBase + Head(a)]
    ELSE LET d == NatDivMod(a, 2^s) IN [q |-> Trim(d.q), r |-> d.r]

\* a shifted right by any number of bits, the bits shifted out dropped
ShiftRightTrunc(a, s) ==
    IF s \div LimbBits >= Len(a) THEN <<>>
    ELSE Trim(NatDivMod(SubSeq(a, s \div LimbBits + 1, Len(a)),
                        2^(s % LimbBits)).q)

Zero == [kind |-> "zero", m |-> <<>>, e |-> 0]
Inf == [kind |-> "inf", m |-> <<>>, e |-> 0]
NaN == [kind |-> "nan", m |-> <<>>, e |-> 0]

\* The float nearest to p * 2^e, ties to even; p has at least 53 bits and
\* sticky says that the exact value lies above p * 2^e, by less than 2^e.
RoundNearestEven(p, sticky, e) ==
    LET s == NatBits(p) - MantissaBits
    IN IF s = 0 THEN [kind |-> "finite", m |-> p, e |-> e]
       ELSE LET d == ShiftRight(p, s)
                half == 2^(s - 1)
                up == \/ d.r > half
                      \/ d.r = half /\ (sticky \/ Head(d.q) % 2 = 1)
                m == IF up THEN NatSucc(d.q) ELSE d.q
            IN IF NatBits(m) > MantissaBits
               THEN [kind |-> "finite", m |-> ShiftRight(m, 1).q, e |-> e + s + 1]
               ELSE [kind |-> "finite", m |-> m, e |-> e + s]

\* float(k) for an integer 0 <= k < 2^23
float_of_int(k) ==
    IF k = 0 THEN Zero
    ELSE RoundNearestEven(<<0, 0, 0, 0>> \o NatOf(k), FALSE, 0 - 4 * LimbBits)

\* x * k for a float x >= 0 and an integer 0 <= k < 2^16
float_mul_int(x, k) ==
    IF x.kind = "nan" THEN NaN
    ELSE IF x.kind = "inf" THEN (IF k = 0 THEN NaN ELSE Inf)
    ELSE IF x.kind = "zero" \/ k = 0 THEN Zero
    ELSE RoundNearestEven(NatMul(x.m, k, 0), FALSE, x.e)

\* x / n for a float x >= 0 and an integer 0 <= n < 2^16
float_div_int(x, n) ==
    IF x.kind = "nan" THEN NaN
    ELSE IF n = 0 THEN (IF x.kind = "zero" THEN NaN ELSE Inf)
    ELSE IF x.kind \in {"zero", "inf"} THEN x
    ELSE LET d == NatDivMod(<<0, 0>> \o x.m, n)
         IN RoundNearestEven(Trim(d.q), d.r # 0, x.e - 2 * LimbBits)

\* ndarray.astype(int) of a finite float x >= 0: the fraction is cut off
astype_int(x) ==
    IF x.kind = "zero" THEN 0
    ELSE IF x.e >= 0 THEN NatToInt(NatMul(x.m, 2^x.e, 0))
    ELSE NatToInt(ShiftRightTrunc(x.m, 0 - x.e))

\* The cast of nan or inf to int64 is undefined: numpy yields the smallest
\* int64 on x86-64 and 0 on AArch64.
InvalidCasts == {"zero", "int64_min"}

\* constants.py line 7: 2048 / SAMPLING_RATE
VAMP_FEATURE_STEP == float_div_int(float_of_int(2048), SAMPLING_RATE)

\* One beat more than np.arange(0, num_beats + 1e-4) yields: the last beat
\* lies beyond the end of the clip
arange_one_beyond(num_beats) ==
    IF num_beats < 0 THEN <<>> ELSE [j \in 1..(num_beats + 2) |-> j - 1]

\* np.arange(0, num_beats + 1e-4): ceil(num_beats + 1e-4) values from 0 on
arange(num_beats) ==
    IF num_beats < 0 THEN <<>> ELSE [j \in 1..(num_beats + 1) |-> j - 1]

\* scipy interp1d((0, num_beats), (0, y_hi), kind='linear',
\* fill_value='extrapolate') at beat: slope * (beat - x_lo) + y_lo with
\* slope = (y_hi - y_lo) / (x_hi - x_lo).  The anchors are sorted by x.  Beats
\* are evaluated for num_beats >= 0 only (arange is empty below), so
\* x_lo = 0 and y_lo = 0.
beat_to_time_fn(num_beats, y_hi, beat) ==
    float_mul_int(float_div_int(y_hi, num_beats), beat)

\* librosa.time_to_frames(time, sr=SAMPLING_RATE, hop_length=2048):
\* (time * sr).astype(int) // hop_length; the smallest int64 floor-divided
\* by 2048 is -4503599627370496, kept as its numeral.
time_to_frame_fn(time, invalid_cast) ==
    LET scaled == float_mul_int(time, SAMPLING_RATE)
    IN IF scaled.kind \in {"nan", "inf"}
       THEN (IF invalid_cast = "zero" THEN 0 ELSE "-4503599627370496")
       ELSE astype_int(scaled) \div 2048

\* extract_vamp_features.py lines 46-51
get_beats_to_frames(num_beats, num_frames, invalid_cast) ==
    LET y_hi == float_mul_int(VAMP_FEATURE_STEP, num_frames)
        beats == arange(num_beats)
    IN Return([j \in 1..Len(beats) |->
                 time_to_frame_fn(beat_to_time_fn(num_beats, y_hi, beats[j]),
                                  invalid_cast)])

(***************************************************************************)
(* Feature resampling (extract_vamp_features.py lines 38-100).             *)
(* A feature is a sequence of channels, each a sequence of frame values;   *)
(* frame values are small integers.  A mean is kept as a fraction in       *)
(* lowest terms, so that equal values are equal records.                   *)
(***************************************************************************)
RECURSIVE GCD(_, _)
GCD(a, b) == IF b = 0 THEN a ELSE GCD(b, a % b)
Abs(n) == IF n < 0 THEN 0 - n ELSE n
Rat(num, den) ==
    [num |-> num \div GCD(Abs(num), den), den |-> den \div GCD(Abs(num), den)]
RatLeq(v, w) == v.num * w.den <= w.num * v.den
RatAdd(v, w) == Rat(v.num * w.den + w.num * v.den, v.den * w.den)

RECURSIVE SumOf(_)
SumOf(values) == IF values = <<>> THEN 0 ELSE Head(values) + SumOf(Tail(values))
RECURSIVE RatSumOf(_)
RatSumOf(values) ==
    IF values = <<>> THEN Rat(0, 1) ELSE RatAdd(Head(values), RatSumOf(Tail(values)))

\* np.mean of a one-dimensional slice of frame values; nan, kept as 0/0, for
\* an empty one
NaNCell == [num |-> 0, den |-> 0]
mean(values) ==
    IF values = <<>> THEN NaNCell ELSE Rat(SumOf(values), Len(values))

\* x.min, x.max and x.mean over the cells along an axis; nan propagates
HasNaN(cells) == \E k \in 1..Len(cells) : cells[k] = NaNCell
min_of(cells) ==
    IF HasNaN(cells) THEN NaNCell
    ELSE CHOOSE v \in {cells[k] : k \in 1..Len(cells)} :
            \A k \in 1..Len(cells) : RatLeq(v, cells[k])
max_of(cells) ==
    IF HasNaN(cells) THEN NaNCell
    ELSE CHOOSE v \in {cells[k] : k \in 1..Len(cells)} :
            \A k \in 1..Len(cells) : RatLeq(cells[k], v)
mean_of(cells) ==
    IF HasNaN(cells) THEN NaNCell
    ELSE LET total == RatSumOf(cells) IN Rat(total.num, total.den * Len(cells))

\* The slices a reduction along the axis of a two-dimensional table is taken
\* over, in the order of its result: along axis 0 one slice for every column
\* (the cells of all rows in it), along axis 1 one slice for every row
along_axis(table, axis) ==
    IF axis = 0
    THEN [b \in 1..(IF table = <<>> THEN 0 ELSE Len(table[1])) |->
             [k \in 1..Len(table) |-> table[k][b]]]
    ELSE [r \in 1..Len(table) |-> table[r]]

\* extract_vamp_features.py lines 38-39:
\* (x - x.min(axis)) / (x.max(axis) - x.min(axis) + 1e-8).  The reductions
\* have no keepdims: their vectors are broadcast along the last axis of x,
\* which is the reduced axis only when axis is 0.  A length of 1 stretches
\* to the other length; two other lengths that differ raise ValueError.  A
\* scaled cell is kept as the operands of its quotient.
minmax(table, axis) ==
    LET slices == along_axis(table, axis)
        columns == IF table = <<>> THEN 0 ELSE Len(table[1])
        reduced == Len(slices)
    IN IF columns # reduced /\ columns # 1 /\ reduced # 1 THEN Raise("ValueError")
       ELSE Return([r \in 1..Len(table) |->
               [c \in 1..(IF columns = 1 THEN reduced ELSE columns) |->
                   LET along == slices[IF reduced = 1 THEN 1 ELSE c]
                   IN [x |-> table[r][IF columns = 1 THEN 1 ELSE c],
                       min |-> min_of(along),
                       max |-> max_of(along)]]])

\* extract_vamp_features.py lines 42-43:
\* (x - x.mean(axis)) / (x.std(axis) + 1e-8), broadcast as in minmax.  The
\* deviation is kept as the cells it is taken over.
standardize(table, axis) ==
    LET slices == along_axis(table, axis)
        columns == IF table = <<>> THEN 0 ELSE Len(table[1])
        reduced == Len(slices)
    IN IF columns # reduced /\ columns # 1 /\ reduced # 1 THEN Raise("ValueError")
       ELSE Return([r \in 1..Len(table) |->
               [c \in 1..(IF columns = 1 THEN reduced ELSE columns) |->
                   LET along == slices[IF reduced = 1 THEN 1 ELSE c]
                   IN [x |-> table[r][IF columns = 1 THEN 1 ELSE c],
                       mean |-> mean_of(along),
                       std_of |-> along]]])

\* The normalization get_vamp_features passes for each output (lines 96-98)
normalization_of(name) ==
    IF name = "semitonespectrum" THEN "standardize" ELSE "minmax"
\* extract_vamp_features.py lines 70-71: normalization(resampled_feature), the
\* axis left at its default 0
normalize(normalization, table) ==
    IF normalization = "standardize" THEN standardize(table, 0)
    ELSE minmax(table, 0)

\* feature.shape[1]
num_frames_of(feature) == IF feature = <<>> THEN 0 ELSE Len(feature[1])

\* feature[:, start:stop] of one channel: Python slice, negative indexes
\* counted from the end and both ends clipped to the channel
slice_index(idx, size) ==
    IF idx < 0 THEN (IF idx + size < 0 THEN 0 ELSE idx + size)
    ELSE IF idx > size THEN size ELSE idx
slice(channel, start, stop) ==
    SubSeq(channel, slice_index(start, Len(channel)) + 1,
           slice_index(stop, Len(channel)))

\* Every beat takes the single frame at its first boundary: no averaging
frame_of_beat_first_frame_only(feature, beats_to_frames, i) ==
    LET size == num_frames_of(feature)
        lo == beats_to_frames[i + 1]
        frame_idx == IF lo <= size - 1 THEN lo ELSE size - 1
    IN IF frame_idx >= size \/ frame_idx < 0 - size
       THEN Raise("IndexError")
       ELSE Return([c \in 1..Len(feature) |->
               Rat(feature[c][IF frame_idx < 0 THEN frame_idx + size + 1
                              ELSE frame_idx + 1], 1)])

\* extract_vamp_features.py lines 58-63: the frame of beat i (from 0); an
\* index outside -size..size-1 raises IndexError
frame_of_beat(feature, beats_to_frames, i) ==
    LET size == num_frames_of(feature)
        lo == beats_to_frames[i + 1]
        hi == beats_to_frames[i + 2]
    IN IF lo = hi
       THEN LET frame_idx == IF lo <= size - 1 THEN lo ELSE size - 1
            IN IF frame_idx >= size \/ frame_idx < 0 - size
               THEN Raise("IndexError")
               ELSE Return([c \in 1..Len(feature) |->
                       Rat(feature[c][IF frame_idx < 0 THEN frame_idx + size + 1
                                      ELSE frame_idx + 1], 1)])
       ELSE Return([c \in 1..Len(feature) |-> mean(slice(feature[c], lo, hi))])

\* extract_vamp_features.py lines 54-73.  np.stack raises ValueError for an
\* empty list of frames; the stacked table is channels x beats.
resample_feature(feature, beats_to_frames, normalization) ==
    LET num_beats == Len(beats_to_frames) - 1
        frames == [i \in 1..num_beats |->
                      frame_of_beat(feature, beats_to_frames, i - 1)]
    IN IF \E i \in 1..num_beats : frames[i].status # "ok"
       THEN frames[CHOOSE i \in 1..num_beats :
                      /\ frames[i].status # "ok"
                      /\ \A j \in 1..(i - 1) : frames[j].status = "ok"]
       ELSE IF num_beats <= 0 THEN Raise("ValueError")
       ELSE LET resampled_feature ==
                    [c \in 1..Len(feature) |->
                        [b \in 1..num_beats |-> frames[b].value[c]]]
            IN IF Len(resampled_feature[1]) # num_beats
               THEN Raise("AssertionError")
               ELSE normalize(normalization, resampled_feature)

\* extract_vamp_features.py lines 86-87: vamp's matrix is frames x channels;
\* it is transposed and rolled by -3 along the channels
transpose(matrix) ==
    IF matrix = <<>> THEN <<>>
    ELSE [c \in 1..Len(matrix[1]) |-> [f \in 1..Len(matrix) |-> matrix[f][c]]]
roll(feature, shift) ==
    [c \in 1..Len(feature) |-> feature[((c - 1 - shift) % Len(feature)) + 1]]

(***************************************************************************)
(* Calls of the aligner and of compute_feature (specification              *)
(* SpecFeature).  compute_feature is called with the matrix vamp.collect   *)
(* returned for the audio: frames x channels.                              *)
(***************************************************************************)
MaxAlignBeats == 9
MaxAlignFrames == 20
MaxComputeBeats == 2
MaxFrames == 3
NumChannels == 2
FrameValues == {0, 1}

Matrices ==
    UNION {[1..f -> [1..NumChannels -> FrameValues]] : f \in 1..MaxFrames}

AlignCalls ==
    [fn : {"get_beats_to_frames"},
     num_beats : (0 - 1)..MaxAlignBeats, num_frames : 0..MaxAlignFrames]
ComputeCalls ==
    [fn : {"compute_feature"},
     name : {"chroma", "basschroma", "semitonespectrum"},
     num_beats : (0 - 1)..MaxComputeBeats, matrix : Matrices]

InitFeature ==
    /\ call \in AlignCalls \cup ComputeCalls
    /\ pc = "start"
    /\ ret = NoRet
    /\ h5f = <<>>

CallGetBeatsToFrames ==
    /\ pc = "start"
    /\ call.fn = "get_beats_to_frames"
    /\ \E invalid_cast \in InvalidCasts :
          ret' = get_beats_to_frames(call.num_beats, call.num_frames, invalid_cast)
    /\ pc' = "done"
    /\ UNCHANGED <<call, h5f>>

\* extract_vamp_features.py lines 85-87: the feature compute_feature works on
feature_of(matrix) == roll(transpose(matrix), 0 - 3)

\* extract_vamp_features.py line 89
ComputeFeatureAlign ==
    /\ pc = "start"
    /\ call.fn = "compute_feature"
    /\ \E invalid_cast \in InvalidCasts :
          ret' = get_beats_to_frames(call.num_beats,
                                     num_frames_of(feature_of(call.matrix)),
                                     invalid_cast)
    /\ pc' = "resample"
    /\ UNCHANGED <<call, h5f>>

\* extract_vamp_features.py lines 90-92
ComputeFeatureResample ==
    /\ pc = "resample"
    /\ call.fn = "compute_feature"
    /\ ret' = resample_feature(feature_of(call.matrix), ret.value,
                               normalization_of(call.name))
    /\ pc' = "done"
    /\ UNCHANGED <<call, h5f>>

NextFeature ==
    \/ CallGetBeatsToFrames
    \/ ComputeFeatureAlign
    \/ ComputeFeatureResample

SpecFeature == InitFeature /\ [][NextFeature]_vars

(***************************************************************************)
(* Properties of the alignment and the resampling (specification           *)
(* SpecFeature).                                                           *)
(***************************************************************************)
\* The number of frames the call aligns the beats to
FramesOfCall ==
    IF call.fn = "get_beats_to_frames" THEN call.num_frames ELSE Len(call.matrix)

\* C14: for num_beats >= 1 and num_frames >= 1 the aligner returns exactly
\* num_beats + 1 integer boundaries, boundary i being the floor of
\* i * num_frames / num_beats; the sequence never decreases, starts at 0 and
\* ends at num_frames.
C14_BoundariesAreFloors ==
    (Done("get_beats_to_frames") /\ call.num_beats >= 1 /\ call.num_frames >= 1) =>
        /\ ret.status = "ok"
        /\ Len(ret.value) = call.num_beats + 1
        /\ \A i \in 0..call.num_beats :
              ret.value[i + 1] = (i * call.num_frames) \div call.num_beats
        /\ \A i \in 1..call.num_beats : ret.value[i] <= ret.value[i + 1]
        /\ ret.value[1] = 0
        /\ ret.value[call.num_beats + 1] = call.num_frames

\* What the float64 arithmetic does guarantee: num_beats + 1 boundaries that
\* start at 0 and never decrease, each the floor of i * num_frames / num_beats
\* or, where that quotient is an integer, possibly one less.
BoundariesWithinOneOfFloors ==
    (Done("get_beats_to_frames") /\ call.num_beats >= 1 /\ call.num_frames >= 1) =>
        /\ ret.status = "ok"
        /\ Len(ret.value) = call.num_beats + 1
        /\ \A i \in 0..call.num_beats :
              \/ ret.value[i + 1] = (i * call.num_frames) \div call.num_beats
              \/ /\ (i * call.num_frames) % call.num_beats = 0
                 /\ ret.value[i + 1] = (i * call.num_frames) \div call.num_beats - 1
        /\ \A i \in 1..call.num_beats : ret.value[i] <= ret.value[i + 1]
        /\ ret.value[1] = 0

\* The feature and the boundaries of a compute_feature call with
\* num_beats >= 1
FeatureOfCall == feature_of(call.matrix)
BoundariesOfCall ==
    get_beats_to_frames(call.num_beats, Len(call.matrix), "zero").value

RECURSIVE SumFrames(_, _, _)
SumFrames(channel, lo, hi) ==
    IF lo >= hi THEN 0 ELSE channel[lo + 1] + SumFrames(channel, lo + 1, hi)

\* The value C15 gives to beat i (from 0) of a channel, given the boundaries
ExpectedCell(channel, boundaries, i) ==
    LET lo == boundaries[i + 1]
        hi == boundaries[i + 2]
        last == Len(channel) - 1
    IN IF lo = hi
       THEN Rat(channel[(IF lo <= last THEN lo ELSE last) + 1], 1)
       ELSE Rat(SumFrames(channel, lo, hi), hi - lo)

\* C15: beat i of every channel is the single frame at
\* min(boundary[i], num_frames - 1) when boundary[i] = boundary[i+1], and
\* otherwise the arithmetic mean of exactly the frames with index in
\* [boundary[i], boundary[i+1]); the table has num_beats = len(boundaries) - 1
\* columns.
C15_BeatIsFrameOrMean ==
    (Done("compute_feature") /\ call.num_beats >= 1) =>
        LET boundaries == BoundariesOfCall
            feature == FeatureOfCall
        IN /\ ret.status = "ok"
           /\ Len(ret.value) = Len(feature)
           /\ \A c \in 1..Len(ret.value) :
                 /\ Len(ret.value[c]) = Len(boundaries) - 1
                 /\ Len(ret.value[c]) = call.num_beats
                 /\ \A i \in 0..(call.num_beats - 1) :
                       ret.value[c][i + 1].x = ExpectedCell(feature[c], boundaries, i)

\* Two beats over three frames: the second beat is the mean of two frames
\* that differ.
C15_Witness ==
    /\ Done("compute_feature")
    /\ call.num_beats = 2
    /\ Len(call.matrix) = 3
    /\ BoundariesOfCall = <<0, 1, 3>>
    /\ ret.status = "ok"
    /\ \E c \in 1..Len(ret.value) :
          /\ FeatureOfCall[c] = <<1, 0, 1>>
          /\ ret.value[c][1].x = [num |-> 1, den |-> 1]
          /\ ret.value[c][2].x = [num |-> 1, den |-> 2]

\* The resampled table before its normalization
ResampledTable ==
    [c \in 1..Len(ret.value) |-> [b \in 1..Len(ret.value[c]) |-> ret.value[c][b].x]]

\* C16: the normalization runs across the beat axis: the minimum and the
\* maximum (chroma, bass-chroma), or the mean and the deviation (semitone
\* spectrum), of a cell are taken over all beats of the cell's own channel,
\* and the min-max scaled values of a channel lie in [0, 1].
C16_NormalizedOverBeatsOfChannel ==
    (Done("compute_feature") /\ ret.status = "ok") =>
        \A c \in 1..Len(ret.value) : \A b \in 1..Len(ret.value[c]) :
            LET cell == ret.value[c][b]
                beats == ResampledTable[c]
            IN IF call.name = "semitonespectrum"
               THEN cell.mean = mean_of(beats) /\ cell.std_of = beats
               ELSE /\ cell.min = min_of(beats)
                    /\ cell.max = max_of(beats)
                    /\ RatLeq(cell.min, cell.x) /\ RatLeq(cell.x, cell.max)

\* What the code does: the statistics of a cell are taken over the channels
\* of the cell's own beat.
NormalizedOverChannelsOfBeat ==
    (Done("compute_feature") /\ ret.status = "ok") =>
        \A c \in 1..Len(ret.value) : \A b \in 1..Len(ret.value[c]) :
            LET cell == ret.value[c][b]
                channels == [k \in 1..Len(ret.value) |-> ResampledTable[k][b]]
            IN IF call.name = "semitonespectrum"
               THEN cell.mean = mean_of(channels) /\ cell.std_of = channels
               ELSE /\ cell.min = min_of(channels)
                    /\ cell.max = max_of(channels)
                    /\ RatLeq(cell.min, cell.x) /\ RatLeq(cell.x, cell.max)

\* C17: with num_beats <= 0 or num_frames <= 0 the alignment fails with
\* AlignmentDegenerate where the degenerate input is met: no boundary
\* sequence and no feature table is ever returned for it.
C17_DegenerateRejected ==
    (pc # "start" /\ (call.num_beats <= 0 \/ FramesOfCall <= 0))
        => ret.status = "AlignmentDegenerate"

(***************************************************************************)
(* The batch driver of the feature extraction (specification SpecDriver):  *)
(* extract_vamp_features.main, lines 129-170.  An entity is a pending      *)
(* theorytab id, known by its position in the pending list, with its audio *)
(* in the audio file (a clip with sound, an empty clip, a clip the vamp    *)
(* plugin fails on, or no entry) and its num_beats.  pc holds the place in *)
(* the loops: the start i of the batch, the entity j of the batch being    *)
(* written and its segment idx.  BATCH_SIZE is 100 in the code; BatchSize  *)
(* is smaller so that short pending lists span several batches.            *)
(***************************************************************************)
BatchSize == 2
MaxPending == 3
Audios == {"sound", "empty", "corrupt", "missing"}
BeatCounts == {40, 300}
Entities == [audio : Audios, num_beats : BeatCounts]
PendingLists == UNION {[1..n -> Entities] : n \in 0..MaxPending}
DriverCalls == [fn : {"main"}, pending : PendingLists]

InitDriver ==
    /\ call \in DriverCalls
    /\ pc = [at |-> "batch", i |-> 0, j |-> 0, idx |-> 0]
    /\ ret = NoRet
    /\ h5f = <<>>

\* get_vamp_features of one entity in a pool worker (lines 95-100 and 151):
\* vamp.collect raises for a clip it cannot analyse; otherwise the three
\* tables have num_beats columns, and that number stands for them.
get_vamp_features(audio, num_beats) ==
    IF audio = "corrupt" THEN Raise("Exception") ELSE Return(num_beats)

\* pending_theorytab_ids[i:i+BATCH_SIZE], as positions in the pending list
batch_theorytab_ids(pending, i) ==
    [k \in 1..(IF i + BatchSize <= Len(pending) THEN BatchSize ELSE Len(pending) - i)
        |-> i + k]

\* extract_vamp_features.py lines 131-151 and 165-167: the audios of the batch
\* are read (KeyError for an id without audio), the empty clips are skipped
\* and the pool extracts the features of the others; any exception ends the
\* run.  The handler formats valid_batch_theorytab_ids in its message (line
\* 166): the KeyError of line 134 comes before line 138 binds that name, so
\* in the first batch the handler itself raises UnboundLocalError and main is
\* left by it, without the log and without sys.exit(1); in a later batch the
\* name is still bound from the batch before and the run ends with
\* sys.exit(1), as it does for an exception of the pool.
DriverBatch ==
    /\ pc.at = "batch"
    /\ pc.i < Len(call.pending)
    /\ LET ids == batch_theorytab_ids(call.pending, pc.i)
           valid_batch_theorytab_ids ==
               SelectSeq(ids, LAMBDA id : call.pending[id].audio \in {"sound", "corrupt"})
           results ==
               [k \in 1..Len(valid_batch_theorytab_ids) |->
                   get_vamp_features(call.pending[valid_batch_theorytab_ids[k]].audio,
                                     call.pending[valid_batch_theorytab_ids[k]].num_beats)]
       IN IF \E k \in 1..Len(ids) : call.pending[ids[k]].audio = "missing"
          THEN /\ ret' = IF pc.i = 0 THEN Raise("UnboundLocalError")
                                     ELSE Raise("SystemExit")
               /\ pc' = [pc EXCEPT !.at = "exited"]
          ELSE IF \E k \in 1..Len(results) : results[k].status # "ok"
          THEN /\ ret' = Raise("SystemExit")
               /\ pc' = [pc EXCEPT !.at = "exited"]
          ELSE /\ ret' = Return([ids |-> valid_batch_theorytab_ids,
                                 num_beats |-> [k \in 1..Len(results) |-> results[k].value]])
               /\ pc' = IF valid_batch_theorytab_ids = <<>>
                        THEN [at |-> "batch", i |-> pc.i + BatchSize, j |-> 0, idx |-> 0]
                        ELSE [at |-> "write", i |-> pc.i, j |-> 1, idx |-> 0]
    /\ UNCHANGED <<call, h5f>>

\* extract_vamp_features.py lines 153-164 and 169: one iteration of the idx
\* loop for the entity being written; after the last segment of the last
\* entity the batch is counted and the next one starts.
DriverCreateDatasets ==
    /\ pc.at = "write"
    /\ LET theorytab_id == ret.value.ids[pc.j]
           chunks == entity_chunks(ret.value.num_beats[pc.j])
       IN IF chunks.status # "ok"
          THEN /\ ret' = Raise("SystemExit")
               /\ pc' = [pc EXCEPT !.at = "exited"]
               /\ h5f' = h5f
          ELSE /\ h5f' = h5f \o [m \in 1..3 |->
                                   [name |-> <<theorytab_id, pc.idx, Modalities[m]>>,
                                    data |-> chunks.value[m][pc.idx + 1]]]
               /\ pc' = IF pc.idx + 1 < Len(chunks.value[1])
                        THEN [pc EXCEPT !.idx = pc.idx + 1]
                        ELSE IF pc.j < Len(ret.value.ids)
                        THEN [pc EXCEPT !.j = pc.j + 1, !.idx = 0]
                        ELSE [at |-> "batch", i |-> pc.i + BatchSize, j |-> 0, idx |-> 0]
               /\ ret' = ret
    /\ UNCHANGED call

\* The range of line 131 is used up: main returns.
DriverReturn ==
    /\ pc.at = "batch"
    /\ pc.i >= Len(call.pending)
    /\ pc' = [pc EXCEPT !.at = "done"]
    /\ UNCHANGED <<call, ret, h5f>>

\* extract_vamp_features.py lines 161-167: an iteration of the idx loop in
\* which a create_dataset call raises (the file system refuses the write):
\* the datasets of the iteration created before it stay in the file, the
\* handler logs the error and the run ends with sys.exit(1).  Closing the
\* file on the way out keeps everything created so far.
DriverCreateDatasetRaises ==
    /\ pc.at = "write"
    /\ LET theorytab_id == ret.value.ids[pc.j]
           chunks == entity_chunks(ret.value.num_beats[pc.j])
       IN /\ chunks.status = "ok"
          /\ \E created \in 0..2 :
                h5f' = h5f \o [m \in 1..created |->
                                 [name |-> <<theorytab_id, pc.idx, Modalities[m]>>,
                                  data |-> chunks.value[m][pc.idx + 1]]]
    /\ ret' = [Raise("SystemExit") EXCEPT !.value = <<"create_dataset">>]
    /\ pc' = [pc EXCEPT !.at = "exited"]
    /\ UNCHANGED call

NextDriver ==
    \/ DriverBatch
    \/ DriverCreateDatasets
    \/ DriverCreateDatasetRaises
    \/ DriverReturn

SpecDriver == InitDriver /\ [][NextDriver]_vars

\* The run of the driver is over: main returned, the process exited or main
\* was left by an exception
RunEnded == pc.at \in {"done", "exited"}

\* Processing the entity raises an error: its audio is missing or its feature
\* extraction raises
RaisesError(entity) == entity.audio \in {"missing", "corrupt"}

\* The entity has segments in the features file
Persisted(theorytab_id) ==
    \E k \in 1..Len(h5f) : h5f[k].name[1] = theorytab_id

\* C18: the driver skips a failing entity without aborting the batch: when
\* the processing of one entity raises an error, every other pending entity
\* with a clip that sounds has been processed and persisted by the end of the
\* same run.
C18_OthersPersistedDespiteFailure ==
    (RunEnded /\ \E bad \in 1..Len(call.pending) : RaisesError(call.pending[bad])) =>
        \A id \in 1..Len(call.pending) :
            call.pending[id].audio = "sound" => Persisted(id)

\* A create_dataset call raised during the run
WriteRaised == ret.status = "SystemExit" /\ ret.value = <<"create_dataset">>

\* Without a failing entity and without a failing write the run persists
\* every entity whose clip sounds.
AllPersistedWithoutFailure ==
    (/\ RunEnded
     /\ ~WriteRaised
     /\ \A id \in 1..Len(call.pending) : ~RaisesError(call.pending[id])) =>
        /\ pc.at = "done"
        /\ \A id \in 1..Len(call.pending) :
              call.pending[id].audio = "sound" => Persisted(id)

\* set(vamp_h5f), lines 122-123: the ids a later run takes as processed
processed_theorytab_ids == {h5f[k].name[1] : k \in 1..Len(h5f)}

\* The dataset of that name is in the features file
Stored(name) == \E k \in 1..Len(h5f) : h5f[k].name = name

\* The entity has every segment 0..count-1 in the file, each with its three
\* datasets
StoredComplete(theorytab_id) ==
    LET chunks == entity_chunks(call.pending[theorytab_id].num_beats)
    IN /\ chunks.status = "ok"
       /\ \A idx \in 0..(Len(chunks.value[1]) - 1) :
             \A m \in 1..3 : Stored(<<theorytab_id, idx, Modalities[m]>>)

\* C21: an entity id is present in the features file only together with all
\* of its segments 0..count-1, each with its chroma, basschroma and spectrum
\* datasets, in every state in which a run can stop, a run that exits on an
\* exception in the middle of writing an entity included.
C21_StoredEntitiesComplete ==
    RunEnded => \A theorytab_id \in processed_theorytab_ids :
                    StoredComplete(theorytab_id)

\* A run in which no create_dataset call raises stops with complete entities
\* only.
StoredEntitiesCompleteWithoutWriteRaised ==
    (RunEnded /\ ~WriteRaised) =>
        \A theorytab_id \in processed_theorytab_ids : StoredComplete(theorytab_id)

(***************************************************************************)
(* Download of the audio of one video (specification SpecDownload):        *)
(* download_youtube_audios.py, download_audio and process_youtube_id.      *)
(* The input is what each download attempt does, in order: it completes    *)
(* ("ok"), raises requests.Timeout ("timeout"), raises the sign-in error   *)
(* for bots ("bot"), raises the player-response error ("player") or        *)
(* raises any other exception ("error").  An attempt is made after every   *)
(* timeout and every bot error, so these are followed by another outcome.  *)
(* pc holds the place of the run, the handlers of the download_audio       *)
(* calls waiting for a nested call, innermost last, and the number of      *)
(* attempts made; h5f holds the files written to the working directory.    *)
(***************************************************************************)
MaxAttempts == 4
Retried == {"timeout", "bot"}
Final == {"ok", "player", "error"}
AttemptLists ==
    UNION {{retries \o <<last>> : retries \in [1..n -> Retried], last \in Final} :
              n \in 0..(MaxAttempts - 1)}
DownloadCalls == [fn : {"process_youtube_id"}, attempts : AttemptLists]

InitDownload ==
    /\ call \in DownloadCalls
    /\ pc = [at |-> "download_audio", handlers |-> <<>>, attempts |-> 0]
    /\ ret = NoRet
    /\ h5f = <<>>

\* download_youtube_audios.py lines 51-77, one call of download_audio up to
\* its return or its nested call: the attempt of lines 52-54 and the handler
\* of its exception.  A completed download leaves the .wav file.
DownloadAudio ==
    /\ pc.at = "download_audio"
    /\ LET outcome == call.attempts[pc.attempts + 1]
           made == [pc EXCEPT !.attempts = pc.attempts + 1]
       IN CASE outcome = "ok" ->
                 /\ h5f' = <<"wav">>
                 /\ ret' = Return(<<TRUE, "None">>)
                 /\ pc' = [made EXCEPT !.at = "return"]
            [] outcome = "timeout" ->
                 /\ pc' = [made EXCEPT !.handlers = Append(pc.handlers, "line 62")]
                 /\ UNCHANGED <<ret, h5f>>
            [] outcome = "bot" ->
                 /\ pc' = [made EXCEPT !.handlers = Append(pc.handlers, "line 69")]
                 /\ UNCHANGED <<ret, h5f>>
            [] outcome = "player" ->
                 /\ ret' = Raise("SystemExit")
                 /\ pc' = [made EXCEPT !.at = "exited"]
                 /\ UNCHANGED h5f
            [] outcome = "error" ->
                 /\ ret' = Return(<<FALSE, "err">>)
                 /\ pc' = [made EXCEPT !.at = "return"]
                 /\ UNCHANGED h5f
    /\ UNCHANGED call

\* A nested download_audio call returned to the handler that made it.  Line 69
\* returns its pair; line 62 drops the pair, control leaves the try statement
\* and line 77 returns (True, None).
DownloadAudioReturn ==
    /\ pc.at = "return"
    /\ pc.handlers # <<>>
    /\ ret' = IF pc.handlers[Len(pc.handlers)] = "line 62"
              THEN Return(<<TRUE, "None">>)
              ELSE ret
    /\ pc' = [pc EXCEPT !.handlers = SubSeq(pc.handlers, 1, Len(pc.handlers) - 1)]
    /\ UNCHANGED <<call, h5f>>

\* download_youtube_audios.py lines 81-83: the outermost call returned to
\* process_youtube_id
ProcessYoutubeId ==
    /\ pc.at = "return"
    /\ pc.handlers = <<>>
    /\ LET success_status == ret.value[1]
           err == ret.value[2]
       IN IF ~success_status
          THEN /\ ret' = Return(<<<<>>, err>>)
               /\ pc' = [pc EXCEPT !.at = "done"]
          ELSE /\ ret' = ret
               /\ pc' = [pc EXCEPT !.at = "load"]
    /\ UNCHANGED <<call, h5f>>

\* download_youtube_audios.py lines 85-102: the file is loaded, cut into the
\* segments of its alignments and removed; librosa.load raises
\* FileNotFoundError when there is no file.
ProcessYoutubeIdLoad ==
    /\ pc.at = "load"
    /\ IF h5f = <<"wav">>
       THEN /\ ret' = Return(<<"audios", "None">>)
            /\ h5f' = <<>>
       ELSE /\ ret' = Raise("FileNotFoundError")
            /\ h5f' = h5f
    /\ pc' = [pc EXCEPT !.at = "done"]
    /\ UNCHANGED call

NextDownload ==
    \/ DownloadAudio
    \/ DownloadAudioReturn
    \/ ProcessYoutubeId
    \/ ProcessYoutubeIdLoad

SpecDownload == InitDownload /\ [][NextDownload]_vars

\* The last download attempt made completed without raising
LastAttemptCompleted == call.attempts[pc.attempts] = "ok"

\* C20: download_audio hands (True, None) to process_youtube_id only when the
\* last attempt made for the video completed without raising, also after a
\* timeout, a Tor renewal and a retry; process_youtube_id therefore never
\* goes on to load the audio of a download that failed.
C20_SuccessMeansLastAttemptCompleted ==
    /\ (pc.at = "return" /\ pc.handlers = <<>> /\ ret.value[1])
          => LastAttemptCompleted
    /\ pc.at = "load" => LastAttemptCompleted

\* Without a timeout among the attempts the pair handed to the caller is the
\* outcome of the last attempt.
SuccessMeansCompletedWithoutTimeout ==
    (\A k \in 1..Len(call.attempts) : call.attempts[k] # "timeout")
        => C20_SuccessMeansLastAttemptCompleted

(***************************************************************************)
(* The frames the resampler reads (specification SpecFeature).             *)
(***************************************************************************)
\* What resample_feature reads for the beats between the boundaries, of a
\* feature with size frames, stays inside the feature: a single-frame read
\* uses an index in 0..size-1, an averaged range [boundary[i], boundary[i+1])
\* is non-empty and lies in [0, size].
ReadsInRange(boundaries, size) ==
    \A i \in 1..(Len(boundaries) - 1) :
        LET lo == boundaries[i]
            hi == boundaries[i + 1]
            frame_idx == IF lo <= size - 1 THEN lo ELSE size - 1
        IN IF lo = hi
           THEN frame_idx \in 0..(size - 1)
           ELSE lo < hi /\ 0 <= lo /\ hi <= size

\* C22: for num_beats >= 1 and num_frames >= 1, num_beats > num_frames
\* included, with the boundaries the aligner produces, every frame index the
\* resampler reads lies in 0..num_frames-1: the boundaries returned by the
\* aligner, and those compute_feature hands to the resampler, give reads in
\* range, and the resampler raises no IndexError.
C22_FrameReadsInRange ==
    /\ (Done("get_beats_to_frames") /\ call.num_beats >= 1 /\ call.num_frames >= 1)
          => /\ ret.status = "ok"
             /\ ReadsInRange(ret.value, call.num_frames)
    /\ (call.fn = "compute_feature" /\ pc = "resample" /\ call.num_beats >= 1)
          => /\ ret.status = "ok"
             /\ ReadsInRange(ret.value, num_frames_of(feature_of(call.matrix)))
    /\ (Done("compute_feature") /\ call.num_beats >= 1) => ret.status = "ok"

\* Nine beats over three frames: more beats than frames, beats of one frame
\* read singly and beats that average the frame up to the next boundary.
C22_Witness ==
    /\ Done("get_beats_to_frames")
    /\ call.num_beats = 9
    /\ call.num_frames = 3
    /\ ret.value = <<0, 0, 0, 0, 1, 1, 1, 2, 2, 3>>
    /\ ReadsInRange(ret.value, call.num_frames)

(***************************************************************************)
(* Spans cut at the key boundaries (specification SpecSplit):              *)
(* process_dumped_theorytab_db.py, process_json lines 225-280.  A span is  *)
(* a note or a chord: its onset, its offset and its other fields, which    *)
(* split_objects only copies and which payload stands for.  The input is   *)
(* the list of spans, the beats of payload['keys'] and num_beats.  pc      *)
(* holds the argument of the call of split_objects in progress and the     *)
(* depth of the recursion.                                                 *)
(***************************************************************************)
MaxSpans == 1
MaxKeys == 3
MaxSplitBeat == 3
Payloads == {"a", "b"}
\* onset < num_beats as in lines 154-156 and 196-198; the offset may be at or
\* before the onset (a duration that is zero or negative)
SpanObjs ==
    [onset : 0..(MaxSplitBeat - 1), offset : 0..MaxSplitBeat, payload : Payloads]
SpanLists == UNION {[1..n -> SpanObjs] : n \in 0..MaxSpans}
KeyBeatLists == UNION {[1..n -> 1..MaxSplitBeat] : n \in 1..MaxKeys}
SplitCalls ==
    [fn : {"split_objects"}, objs : SpanLists, key_beats : KeyBeatLists,
     num_beats : {MaxSplitBeat}]

\* process_json lines 225-244: a key lasts from its beat to the beat of the
\* next key, the last one to num_beats; beats are counted from 1 in the
\* payload and from 0 in the result.  scale and tonic are left out.
keys_of(key_beats, num_beats) ==
    [i \in 1..Len(key_beats) |->
        [onset |-> key_beats[i] - 1,
         offset |-> IF i < Len(key_beats) THEN key_beats[i + 1] - 1 ELSE num_beats]]

\* A variant of get_key_split that looks at the first key only.
get_key_split_first_key_only(keys, onset, offset) ==
    IF keys[1].offset > onset /\ keys[1].offset < offset THEN <<keys[1]>> ELSE <<>>

RECURSIVE get_key_split_from(_, _, _, _)
get_key_split_from(keys, onset, offset, i) ==
    IF i > Len(keys) THEN <<>>
    ELSE IF keys[i].offset > onset /\ keys[i].offset < offset THEN <<keys[i]>>
    ELSE get_key_split_from(keys, onset, offset, i + 1)

\* get_key_split, lines 248-253: the first key of the list whose offset is
\* strictly inside the span, as a list of one key, or None as the empty list
get_key_split(keys, onset, offset) == get_key_split_from(keys, onset, offset, 1)

\* The loop of lines 258-272 from the span i on: final_objs and has_split
RECURSIVE split_loop(_, _, _, _)
split_loop(objs, keys, i, acc) ==
    IF i > Len(objs) THEN acc
    ELSE LET obj == objs[i]
             key_split == get_key_split(keys, obj.onset, obj.offset)
         IN IF key_split # <<>>
            THEN LET first_part == [obj EXCEPT !.offset = key_split[1].offset]
                     second_part == [obj EXCEPT !.onset = key_split[1].offset]
                 IN split_loop(objs, keys, i + 1,
                               [final_objs |-> acc.final_objs \o <<first_part, second_part>>,
                                has_split |-> TRUE])
            ELSE split_loop(objs, keys, i + 1,
                            [acc EXCEPT !.final_objs = Append(acc.final_objs, obj)])

InitSplit ==
    /\ call \in SplitCalls
    /\ pc = [at |-> "call", objs |-> call.objs, depth |-> 1]
    /\ ret = NoRet
    /\ h5f = <<>>

\* One call of split_objects, lines 247-277: a pass over its argument, then
\* the recursive call on the result when a span was cut, whose value every
\* caller returns unchanged.
SplitObjects ==
    /\ pc.at = "call"
    /\ LET pass == split_loop(pc.objs, keys_of(call.key_beats, call.num_beats), 1,
                              [final_objs |-> <<>>, has_split |-> FALSE])
       IN IF pass.has_split
          THEN /\ pc' = [at |-> "call", objs |-> pass.final_objs, depth |-> pc.depth + 1]
               /\ ret' = ret
          ELSE /\ pc' = [pc EXCEPT !.at = "done"]
               /\ ret' = Return(pass.final_objs)
    /\ UNCHANGED <<call, h5f>>

NextSplit == SplitObjects

SpecSplit == InitSplit /\ [][NextSplit]_vars

\* split_objects has returned to process_json
SplitDone == pc.at = "done" /\ call.fn = "split_objects"

\* No key's offset is strictly between the onset and the offset of the span
NoKeyOffsetInside(obj, keys) ==
    \A k \in 1..Len(keys) : ~(obj.onset < keys[k].offset /\ keys[k].offset < obj.offset)

\* The position in parts of the last part of obj, when the parts from
\* position i on start with a chain for obj: contiguous spans with the
\* payload of obj, from its onset to its offset; 0 when they do not.
RECURSIVE ChainEnd(_, _, _, _)
ChainEnd(parts, obj, i, onset) ==
    IF i > Len(parts) THEN 0
    ELSE IF parts[i].onset # onset \/ parts[i].payload # obj.payload THEN 0
    ELSE IF parts[i].offset = obj.offset THEN i
    ELSE IF obj.onset < obj.offset /\ onset < parts[i].offset /\ parts[i].offset < obj.offset
    THEN ChainEnd(parts, obj, i + 1, parts[i].offset)
    ELSE 0

\* parts from position i on is, span after span of objs from j on, a chain
\* for that span, and nothing else
RECURSIVE IsChainsOf(_, _, _, _)
IsChainsOf(parts, objs, i, j) ==
    IF j > Len(objs) THEN i = Len(parts) + 1
    ELSE LET end == ChainEnd(parts, objs[j], i, objs[j].onset)
         IN end # 0 /\ IsChainsOf(parts, objs, end + 1, j + 1)

\* C23: split_objects terminates, within one call per key and one more, and
\* returns spans none of which has a key's offset strictly between its onset
\* and its offset; the spans returned for one input span are contiguous, keep
\* its payload and together cover exactly its interval [onset, offset), also
\* when the span crosses several key boundaries.
C23_SpansCutAtKeyOffsets ==
    /\ call.fn = "split_objects" => pc.depth <= Len(call.key_beats) + 1
    /\ SplitDone =>
          /\ ret.status = "ok"
          /\ \A p \in 1..Len(ret.value) :
                NoKeyOffsetInside(ret.value[p], keys_of(call.key_beats, call.num_beats))
          /\ IsChainsOf(ret.value, call.objs, 1, 1)

\* A span over three beats is cut at two key offsets into three spans.
C23_Witness ==
    /\ SplitDone
    /\ call.objs = <<[onset |-> 0, offset |-> 3, payload |-> "a"]>>
    /\ call.key_beats = <<1, 3, 2>>
    /\ ret.value = <<[onset |-> 0, offset |-> 1, payload |-> "a"],
                     [onset |-> 1, offset |-> 2, payload |-> "a"],
                     [onset |-> 2, offset |-> 3, payload |-> "a"]>>
    /\ pc.depth = 3

====
